---------------------------- MODULE Spec2Model ----------------------------
(***************************************************************************)
(* A model of doct.py: the read-only, attribute-accessible Document (a     *)
(* dict subclass whose instance __dict__ is the dict itself), the          *)
(* operations it inherits from dict without overriding them, the           *)
(* to_name_dict_pair / ref_doc_to_uid helpers and the recursive text       *)
(* renderer vstr.                                                          *)
(*                                                                         *)
(* Python objects live in a heap of addressed objects.  A dict, a Document *)
(* and a list are sequences of entries in insertion order; a value is an   *)
(* int, a str, None, or a reference to a heap object, so that two          *)
(* containers can share a nested object exactly as they do in Python.      *)
(***************************************************************************)
EXTENDS Integers, Sequences, FiniteSets, TLC

VARIABLES
    heap,      \* address -> object: the Python heap
    heap0,     \* the heap as it was right after construction (history)
    doc,       \* address of the Document under study
    initial,   \* address of the mapping that was passed to Document(...)
    doc2,      \* address of a second Document (rebuilt, converted or permuted), 0 if none
    pair,      \* what to_name_dict_pair() last returned: the name and the address of ret
    gen,       \* the generator object last returned by keys() / values() / items()
    text,      \* what str() last returned for doc (one) and for doc2 (two)
    res        \* outcome of the last call: operation, argument, exception, value

vars == <<heap, heap0, doc, initial, doc2, pair, gen, text, res>>

---------------------------------------------------------------------------
(* Bounds of the model *)

\* number of heap addresses
MaxObjs == 9
\* number of entries of the initial mapping of the flat specification
MaxKeys == 2
\* largest underlying store the inherited dict insertions may build
MaxLen == 3
\* number of traversals of one generator object that are followed
MaxPasses == 3

Addr == 1..MaxObjs

---------------------------------------------------------------------------
(* Values and objects *)

IntV(n) == [t |-> "int", i |-> n, s |-> ""]
StrV(x) == [t |-> "str", i |-> 0, s |-> x]
RefV(a) == [t |-> "ref", i |-> a, s |-> ""]
NoneV == [t |-> "None", i |-> 0, s |-> ""]
BoolV(b) == [t |-> "bool", i |-> IF b THEN 1 ELSE 0, s |-> ""]
\* an attribute found on the type: a method bound to the instance
MethodV(m) == [t |-> "method", i |-> 0, s |-> m]
\* the type object itself (what __class__ evaluates to)
TypeV(n) == [t |-> "type", i |-> 0, s |-> n]

Entry(k, v) == [k |-> k, v |-> v]
Obj(kind, ents) == [kind |-> kind, ents |-> ents]
Free == Obj("free", <<>>)
EmptyHeap == [a \in Addr |-> Free]

IsRef(v) == v.t = "ref"
\* isinstance(v, Mapping): a dict or a Document (a dict subclass)
IsMapping(h, v) == IsRef(v) /\ h[v.i].kind \in {"dict", "Document"}
IsDocument(h, v) == IsRef(v) /\ h[v.i].kind = "Document"
IsList(h, v) == IsRef(v) /\ h[v.i].kind = "list"

\* the object at address a is dropped
Release(h, a) == IF a = 0 THEN h ELSE [h EXCEPT ![a] = Free]

\* lowest free address, 0 when the heap is full
Alloc(h) ==
    IF \E a \in Addr : h[a].kind = "free"
    THEN CHOOSE a \in Addr : h[a].kind = "free" /\ \A b \in Addr : h[b].kind = "free" => a <= b
    ELSE 0

---------------------------------------------------------------------------
(* dict primitives on an insertion-ordered sequence of entries *)

\* position of key k, 0 when absent
Index(ents, k) ==
    IF \E j \in 1..Len(ents) : ents[j].k = k
    THEN CHOOSE j \in 1..Len(ents) : ents[j].k = k
    ELSE 0

HasKey(ents, k) == Index(ents, k) # 0
Get(ents, k) == ents[Index(ents, k)].v

\* dict.__setitem__: an existing key keeps its position, a new key goes last
DictSet(ents, k, v) ==
    IF HasKey(ents, k)
    THEN [ents EXCEPT ![Index(ents, k)] = Entry(k, v)]
    ELSE Append(ents, Entry(k, v))

\* dict.pop(k, None) / del: the entry is removed, the others keep their order
DictDel(ents, k) ==
    IF HasKey(ents, k)
    THEN SubSeq(ents, 1, Index(ents, k) - 1) \o SubSeq(ents, Index(ents, k) + 1, Len(ents))
    ELSE ents

RECURSIVE DictUpdate(_, _)
\* dict.update(other): other's entries are set one by one, in other's order
DictUpdate(ents, other) ==
    IF other = <<>> THEN ents
    ELSE DictUpdate(DictSet(ents, Head(other).k, Head(other).v), Tail(other))

KeySet(ents) == {ents[j].k : j \in 1..Len(ents)}

\* isinstance(k, str) and k.startswith('_')
IsReserved(k) == Len(k) >= 1 /\ SubSeq(k, 1, 1) = "_"

RECURSIVE NonReserved(_)
\* the entries whose key is not reserved, in order: what the filtering
\* generator expressions of __iter__, items, values and keys let through
NonReserved(ents) ==
    IF ents = <<>> THEN <<>>
    ELSE (IF IsReserved(Head(ents).k) THEN <<>> ELSE <<Head(ents)>>) \o NonReserved(Tail(ents))

---------------------------------------------------------------------------
(* Python equality of values: ints and strs by value, a bool as the int it *)
(* is (True == 1, False == 0), mappings as dicts (same keys, equal values,  *)
(* order ignored; a Document is compared through dict.__eq__, on its full   *)
(* underlying store), lists element by element.                            *)

\* int and bool: bool is a subclass of int and compares by its number
IsNumber(v) == v.t \in {"int", "bool"}

RECURSIVE PyEq(_, _, _)
PyEq(h, v, w) ==
    IF IsRef(v) /\ IsRef(w)
    THEN LET a == h[v.i]
             b == h[w.i]
         IN  IF a.kind = "list" /\ b.kind = "list"
             THEN /\ Len(a.ents) = Len(b.ents)
                  /\ \A j \in 1..Len(a.ents) : PyEq(h, a.ents[j].v, b.ents[j].v)
             ELSE IF a.kind \in {"dict", "Document"} /\ b.kind \in {"dict", "Document"}
             THEN /\ KeySet(a.ents) = KeySet(b.ents)
                  /\ \A k \in KeySet(a.ents) : PyEq(h, Get(a.ents, k), Get(b.ents, k))
             ELSE FALSE
    ELSE IF IsNumber(v) /\ IsNumber(w) THEN v.i = w.i
    ELSE v = w

---------------------------------------------------------------------------
(* class Document(dict) *)

\* outcome of a call: the exception raised ("" when it returned) and the value
Out(exc, val) == [exc |-> exc, val |-> val]
Ok(val) == Out("", val)
Raise(exc) == Out(exc, NoneV)

\* attributes of the type that are data descriptors: they win over the instance
DataDescriptors == {"__dict__", "__class__"}

\* methods that class Document defines
DocumentMethods ==
    {"__init__", "__setattr__", "__setitem__", "__delattr__", "__delitem__",
     "update", "pop", "__iter__", "items", "values", "keys", "__len__",
     "__getstate__", "__setstate__", "_repr_html_", "__str__", "to_name_dict_pair"}

\* methods that Document inherits from dict and object and does not override
DictMethods ==
    {"clear", "copy", "fromkeys", "get", "popitem", "setdefault",
     "__getitem__", "__contains__", "__eq__", "__ne__", "__lt__", "__le__",
     "__gt__", "__ge__", "__ior__", "__or__", "__ror__", "__repr__",
     "__reversed__", "__format__", "__sizeof__", "__dir__",
     "__getattribute__", "__new__", "__reduce__", "__reduce_ex__",
     "__class_getitem__", "__init_subclass__", "__subclasshook__"}

\* attributes of class Document that are plain values: the class has no
\* docstring, lives in module doct, declares one slot, and a dict is
\* unhashable
ClassData == {"__doc__", "__module__", "__slots__", "__hash__"}
ClassValue(k) ==
    CASE k = "__doc__" -> NoneV
      [] k = "__hash__" -> NoneV
      [] k = "__module__" -> StrV("doct")
      [] k = "__slots__" -> [t |-> "tuple", i |-> 1, s |-> "__dict__"]

TypeAttrs == DocumentMethods \cup DictMethods \cup ClassData

\* __init__ without its last line: the instance keeps a separate, empty __dict__
SlotDictUnbound(h, d) == 0

\* what the __dict__ slot of d holds: __init__ stores the object itself
\* there (0 stands for a separate, empty instance dict)
SlotDict(h, d) == d

\* the entries of the instance __dict__
InstanceDict(h, d) == IF SlotDict(h, d) = 0 THEN <<>> ELSE h[SlotDict(h, d)].ents

\* getattr(d, k), object.__getattribute__: a data descriptor of the type,
\* then the instance __dict__ (the raw store, reserved keys included), then
\* any other attribute of the type, then AttributeError
GetAttr(h, d, k) ==
    IF k = "__dict__" THEN Ok(RefV(SlotDict(h, d)))
    ELSE IF k = "__class__" THEN Ok(TypeV("Document"))
    ELSE IF HasKey(InstanceDict(h, d), k) THEN Ok(Get(InstanceDict(h, d), k))
    ELSE IF k \in ClassData THEN Ok(ClassValue(k))
    ELSE IF k \in TypeAttrs THEN Ok(MethodV(k))
    ELSE Raise("AttributeError")

\* d.m(...) first evaluates d.m: when a key of the store shadows the method,
\* the stored value is what gets called, and the values here are not callable
Callable(h, d, m) == GetAttr(h, d, m).val.t = "method"

\* d[k], dict.__getitem__ on the raw store
GetItem(h, d, k) ==
    IF HasKey(h[d].ents, k) THEN Ok(Get(h[d].ents, k)) ELSE Raise("KeyError")

\* k in d, dict.__contains__ on the raw store
Contains(h, d, k) == HasKey(h[d].ents, k)

\* a full pass of the generator expression of keys()
KeysPass(h, d) == NonReserved(h[d].ents)

\* __len__: len(list(self.keys())), where self.keys is an attribute lookup
DocLen(h, d) ==
    IF Callable(h, d, "keys") THEN Ok(IntV(Len(KeysPass(h, d)))) ELSE Raise("TypeError")

RECURSIVE ByGetItem(_, _, _)
\* [(k, b[k]) for k in keys]
ByGetItem(h, d, keys) ==
    IF keys = <<>> THEN <<>>
    ELSE <<Entry(Head(keys).k, GetItem(h, d, Head(keys).k).val)>> \o ByGetItem(h, d, Tail(keys))

\* the values a for loop over v visits: the elements of a list, the keys of
\* a dict, the non-reserved keys of a Document, the characters of a str
IterOf(h, v) ==
    IF IsList(h, v) THEN [exc |-> "", vals |-> [j \in 1..Len(h[v.i].ents) |-> h[v.i].ents[j].v]]
    ELSE IF IsDocument(h, v)
    THEN [exc |-> "", vals |-> [j \in 1..Len(NonReserved(h[v.i].ents)) |-> StrV(NonReserved(h[v.i].ents)[j].k)]]
    ELSE IF IsMapping(h, v)
    THEN [exc |-> "", vals |-> [j \in 1..Len(h[v.i].ents) |-> StrV(h[v.i].ents[j].k)]]
    ELSE IF v.t = "str" THEN [exc |-> "", vals |-> [j \in 1..Len(v.s) |-> StrV(SubSeq(v.s, j, j))]]
    ELSE [exc |-> "TypeError", vals |-> <<>>]

\* one element of a sequence given to dict(...), taken as a (key, value)
\* pair: it is iterated and must yield two values, the first one hashable.
\* Keys of the model are strs: a pair whose key is an int or None has no
\* counterpart and is reported as "NonStrKey".
PairOf(h, e) ==
    IF IterOf(h, e).exc # "" THEN [exc |-> "TypeError", ent |-> Entry("", NoneV)]
    ELSE IF Len(IterOf(h, e).vals) # 2 THEN [exc |-> "ValueError", ent |-> Entry("", NoneV)]
    ELSE IF IsRef(IterOf(h, e).vals[1]) THEN [exc |-> "TypeError", ent |-> Entry("", NoneV)]
    ELSE IF IterOf(h, e).vals[1].t # "str" THEN [exc |-> "NonStrKey", ent |-> Entry("", NoneV)]
    ELSE [exc |-> "", ent |-> Entry(IterOf(h, e).vals[1].s, IterOf(h, e).vals[2])]

RECURSIVE PairsOf(_, _, _)
\* the pairs of a sequence, in order, up to the first element that fails
PairsOf(h, elems, acc) ==
    IF elems = <<>> THEN [exc |-> "", ents |-> acc]
    ELSE IF PairOf(h, Head(elems).v).exc # "" THEN [exc |-> PairOf(h, Head(elems).v).exc, ents |-> acc]
    ELSE PairsOf(h, Tail(elems), Append(acc, PairOf(h, Head(elems).v).ent))

\* the entries dict.__init__ / dict.update take from their argument x, in
\* order, and the exception that ends the taking: an exact dict gives its
\* entries; a Document overrides __iter__, so it is read through x.keys()
\* and x[k]; a list gives its elements as pairs
DictOf(h, a) ==
    IF h[a].kind = "Document"
    THEN IF Callable(h, a, "keys")
         THEN [exc |-> "", ents |-> ByGetItem(h, a, KeysPass(h, a))]
         ELSE [exc |-> "TypeError", ents |-> <<>>]
    ELSE IF h[a].kind = "list" THEN PairsOf(h, h[a].ents, <<>>)
    ELSE [exc |-> "", ents |-> h[a].ents]

\* Document.__init__(name, src) on the object at address a, new or already
\* built: dict.__init__ merges the entries of src into the store (entries
\* taken before a failure stay), then '_name' is set (an existing '_name'
\* keeps its position).  A new object whose __init__ raises is never built.
DocumentInit(h, a, name, src) ==
    LET copy == DictOf(h, src)
    IN  IF copy.exc # ""
        THEN [exc |-> copy.exc,
              h |-> IF h[a].kind = "Document"
                    THEN [h EXCEPT ![a].ents = DictUpdate(@, copy.ents)]
                    ELSE h]
        ELSE [exc |-> "",
              h |-> [h EXCEPT ![a] = Obj("Document",
                        DictSet(DictUpdate(h[a].ents, copy.ents), "_name", name))]]

\* d.__init__(name, src) called again on a built Document: the attribute
\* is looked up on the instance first
DocReInit(h, d, name, src) ==
    IF Callable(h, d, "__init__") THEN DocumentInit(h, d, name, src)
    ELSE [exc |-> "TypeError", h |-> h]

\* d.__setstate__((name, dd)): __dict__ is bound to the object again,
\* '_name' is set, then dict.update(self, dd) merges the entries of dd
DocSetState(h, d, name, src) ==
    LET copy == DictOf(h, src)
    IN  IF ~Callable(h, d, "__setstate__") THEN [exc |-> "TypeError", h |-> h]
        ELSE [exc |-> copy.exc,
              h |-> [h EXCEPT ![d].ents = DictUpdate(DictSet(@, "_name", name), copy.ents)]]

\* d.__getstate__(): (self._name, dict(self))
DocGetState(h, d) ==
    IF ~Callable(h, d, "__getstate__") THEN [exc |-> "TypeError", name |-> NoneV, ents |-> <<>>]
    ELSE IF GetAttr(h, d, "_name").exc # "" THEN [exc |-> GetAttr(h, d, "_name").exc, name |-> NoneV, ents |-> <<>>]
    ELSE IF DictOf(h, d).exc # "" THEN [exc |-> DictOf(h, d).exc, name |-> NoneV, ents |-> <<>>]
    ELSE [exc |-> "", name |-> GetAttr(h, d, "_name").val, ents |-> DictOf(h, d).ents]

\* to_name_dict_pair with ret a raw copy of the store that keeps '_name'
ToNameDictPairKeepName(h, d, r) ==
    [exc |-> "", name |-> GetAttr(h, d, "_name").val, h |-> [h EXCEPT ![r] = Obj("dict", h[d].ents)]]

\* to_name_dict_pair: ret = dict(self); ret.pop('_name', None);
\* name = self._name; ret is a new dict at address r
ToNameDictPair(h, d, r) ==
    LET copy == DictOf(h, d)
        name == GetAttr(h, d, "_name")
    IN  IF ~Callable(h, d, "to_name_dict_pair") THEN [exc |-> "TypeError", name |-> NoneV, h |-> h]
        ELSE IF copy.exc # "" THEN [exc |-> copy.exc, name |-> NoneV, h |-> h]
        ELSE IF name.exc # "" THEN [exc |-> name.exc, name |-> NoneV, h |-> h]
        ELSE [exc |-> "", name |-> name.val,
              h |-> [h EXCEPT ![r] = Obj("dict", DictDel(copy.ents, "_name"))]]

\* v[k] with a str key: only a mapping has one
Subscript(h, v, k) == IF IsMapping(h, v) THEN GetItem(h, v.i, k) ELSE Raise("TypeError")

\* ref_doc_to_uid(doc, field): name, doc = doc.to_name_dict_pair();
\* doc[field] = doc[field]['uid']; return Document(name, doc).  The dict is
\* made at address r and released on return, the new Document at address n.
RefDocToUid(h, d, field, r, n) ==
    LET p == ToNameDictPair(h, d, r)
        item == GetItem(p.h, r, field)
        uid == Subscript(p.h, item.val, "uid")
        h2 == [p.h EXCEPT ![r].ents = DictSet(@, field, uid.val)]
        made == DocumentInit(h2, n, p.name, r)
    IN  IF p.exc # "" THEN [exc |-> p.exc, h |-> h]
        ELSE IF item.exc # "" THEN [exc |-> item.exc, h |-> h]
        ELSE IF uid.exc # "" THEN [exc |-> uid.exc, h |-> h]
        ELSE IF made.exc # "" THEN [exc |-> made.exc, h |-> h]
        ELSE [exc |-> "", h |-> Release(made.h, r)]

\* __setitem__: raises when self.__dict__ is a Document, which it always is
\* after __init__; otherwise it would write into self.__dict__
DocSetItem(h, d, k, v) ==
    IF SlotDict(h, d) # 0 /\ h[SlotDict(h, d)].kind = "Document"
    THEN [exc |-> "DocumentIsReadOnly", h |-> h]
    ELSE [exc |-> "", h |-> h]

\* __setattr__, __delattr__, __delitem__: raise DocumentIsReadOnly at once
DocSetAttr(h, d, k, v) == [exc |-> "DocumentIsReadOnly", h |-> h]
DocDelAttr(h, d, k) == [exc |-> "DocumentIsReadOnly", h |-> h]
DocDelItem(h, d, k) == [exc |-> "DocumentIsReadOnly", h |-> h]

\* d.update(...) and d.pop(...): the attribute is looked up, then called
DocUpdate(h, d, other) ==
    IF Callable(h, d, "update")
    THEN [exc |-> "DocumentIsReadOnly", h |-> h]
    ELSE [exc |-> "TypeError", h |-> h]

DocPop(h, d, k) ==
    IF Callable(h, d, "pop")
    THEN [exc |-> "DocumentIsReadOnly", h |-> h]
    ELSE [exc |-> "TypeError", h |-> h]

---------------------------------------------------------------------------
(* The generator objects returned by __iter__, keys(), values(), items().  *)
(* The generator walks the underlying dict iterator, which remembers the   *)
(* size the dict had when the iterator was made.                           *)

\* what one entry becomes in the pass of each kind of generator
Yield(kind, e) ==
    IF kind = "items" THEN e
    ELSE IF kind = "values" THEN Entry("", e.v)
    ELSE Entry(e.k, NoneV)

RECURSIVE YieldAll(_, _)
YieldAll(kind, ents) ==
    IF ents = <<>> THEN <<>> ELSE <<Yield(kind, Head(ents))>> \o YieldAll(kind, Tail(ents))

NoGen ==
    [kind |-> "none", pos |-> 0, used |-> 0, done |-> FALSE, pass |-> 0,
     out |-> <<>>, dirty |-> FALSE, snap |-> <<>>]

\* a new generator over the store of d
NewGen(kind, ents) ==
    [kind |-> kind, pos |-> 1, used |-> Len(ents), done |-> FALSE, pass |-> 0,
     out |-> <<>>, dirty |-> FALSE, snap |-> ents]

\* d.keys(), d.values(), d.items(): the attribute is looked up, then called
DocView(h, d, kind) ==
    IF Callable(h, d, kind)
    THEN [exc |-> "", gen |-> NewGen(kind, h[d].ents)]
    ELSE [exc |-> "TypeError", gen |-> NoGen]

\* iter(d): __iter__ is found on the type, never on the instance
DocIter(h, d) == [exc |-> "", gen |-> NewGen("iter", h[d].ents)]

\* first position at or after pos whose key is not reserved, 0 if none
NextPos(ents, pos) ==
    IF \E j \in pos..Len(ents) : ~IsReserved(ents[j].k)
    THEN CHOOSE j \in pos..Len(ents) :
            /\ ~IsReserved(ents[j].k)
            /\ \A i \in pos..(j - 1) : IsReserved(ents[i].k)
    ELSE 0

\* a generator that starts over once it has reached the end, as a view would
GenStepRestarting(g, ents) ==
    IF g.done
    THEN [exc |-> "", gen |-> [g EXCEPT !.done = FALSE, !.pos = 1, !.out = <<>>]]
    ELSE IF NextPos(ents, g.pos) = 0
    THEN [exc |-> "StopIteration", gen |-> [g EXCEPT !.done = TRUE, !.pass = @ + 1]]
    ELSE [exc |-> "",
          gen |-> [g EXCEPT !.pos = NextPos(ents, g.pos) + 1,
                            !.out = Append(@, Yield(g.kind, ents[NextPos(ents, g.pos)]))]]

\* next(g) on a generator g over the entries ents: a finished generator
\* stays finished; a traversal that reaches the end, or fails, ends the pass
GenStep(g, ents) ==
    IF g.done
    THEN [exc |-> "StopIteration", gen |-> [g EXCEPT !.pass = @ + 1, !.out = <<>>]]
    ELSE IF Len(ents) # g.used
    THEN [exc |-> "RuntimeError", gen |-> [g EXCEPT !.done = TRUE, !.pass = @ + 1]]
    ELSE IF NextPos(ents, g.pos) = 0
    THEN [exc |-> "StopIteration", gen |-> [g EXCEPT !.done = TRUE, !.pass = @ + 1]]
    ELSE [exc |-> "",
          gen |-> [g EXCEPT !.pos = NextPos(ents, g.pos) + 1,
                            !.out = Append(@, Yield(g.kind, ents[NextPos(ents, g.pos)]))]]

---------------------------------------------------------------------------
(* Operations Document inherits from dict and does not override *)

\* d.clear(): every entry goes, '_name' included
DictClear(h, d) ==
    IF Callable(h, d, "clear")
    THEN [exc |-> "", val |-> NoneV, h |-> [h EXCEPT ![d].ents = <<>>]]
    ELSE [exc |-> "TypeError", val |-> NoneV, h |-> h]

\* d.setdefault(k, v): inserts when k is absent, returns the stored value
DictSetDefault(h, d, k, v) ==
    IF ~Callable(h, d, "setdefault") THEN [exc |-> "TypeError", val |-> NoneV, h |-> h]
    ELSE IF HasKey(h[d].ents, k) THEN [exc |-> "", val |-> Get(h[d].ents, k), h |-> h]
    ELSE [exc |-> "", val |-> v, h |-> [h EXCEPT ![d].ents = Append(@, Entry(k, v))]]

\* d.popitem(): removes and returns the last entry, KeyError when empty
DictPopItem(h, d) ==
    IF ~Callable(h, d, "popitem") THEN [exc |-> "TypeError", val |-> NoneV, h |-> h]
    ELSE IF h[d].ents = <<>> THEN [exc |-> "KeyError", val |-> NoneV, h |-> h]
    ELSE [exc |-> "", val |-> h[d].ents[Len(h[d].ents)].v,
          h |-> [h EXCEPT ![d].ents = SubSeq(@, 1, Len(@) - 1)]]

\* d |= other: dict.__ior__ updates the store in place
DictIOr(h, d, other) ==
    [exc |-> "", val |-> RefV(d), h |-> [h EXCEPT ![d].ents = DictUpdate(@, other)]]

---------------------------------------------------------------------------
(* Strings: str comparison, '%s' conversion, padding, split and join *)

\* A string of this language cannot hold a backquote: the tab stands for it.
Backquote == "\t"

\* the printable ASCII characters in code point order, from the space on
Ascii ==
    " !\"#$%&'()*+,-./0123456789:;<=>?@ABCDEFGHIJKLMNOPQRSTUVWXYZ[\\]^_"
        \o Backquote \o "abcdefghijklmnopqrstuvwxyz{|}~"

Char(s, i) == SubSeq(s, i, i)
\* ord(c) - 31
Ord(c) == CHOOSE i \in 1..Len(Ascii) : Char(Ascii, i) = c

RECURSIVE StrLess(_, _)
\* a < b on str: the first differing character decides, a proper prefix is smaller
StrLess(a, b) ==
    IF b = "" THEN FALSE
    ELSE IF a = "" THEN TRUE
    ELSE IF Char(a, 1) = Char(b, 1) THEN StrLess(Tail(a), Tail(b))
    ELSE Ord(Char(a, 1)) < Ord(Char(b, 1))

RECURSIVE Repeat(_, _)
\* c * n
Repeat(c, n) == IF n <= 0 THEN "" ELSE c \o Repeat(c, n - 1)

\* '%-{w}s' % s: padded on the right to width w, never truncated
LJust(s, w) == s \o Repeat(" ", w - Len(s))

RECURSIVE NatStr(_)
NatStr(n) == IF n < 10 THEN Char("0123456789", n + 1) ELSE NatStr(n \div 10) \o Char("0123456789", (n % 10) + 1)
\* str(n) of an int
IntStr(n) == IF n < 0 THEN "-" \o NatStr(0 - n) ELSE NatStr(n)

\* s.split('\n'): the pieces between consecutive newlines
Split(s) ==
    LET breaks == {0, Len(s) + 1} \cup {i \in 1..Len(s) : Char(s, i) = "\n"}
        nth(j) == CHOOSE x \in breaks : Cardinality({y \in breaks : y < x}) = j - 1
    IN  [j \in 1..(Cardinality(breaks) - 1) |-> SubSeq(s, nth(j) + 1, nth(j + 1) - 1)]

RECURSIVE Join(_, _)
\* sep.join(parts)
Join(sep, parts) ==
    IF parts = <<>> THEN ""
    ELSE IF Len(parts) = 1 THEN parts[1]
    ELSE parts[1] \o sep \o Join(sep, Tail(parts))

\* does the str s hold the character c
HasChar(s, c) == \E i \in 1..Len(s) : Char(s, i) = c

RECURSIVE Escaped(_, _)
\* the characters of s as repr writes them between quotes q: a backslash
\* before a backslash and before the quote, escapes for the control
\* characters (the tab is not one here: it stands for the backquote)
Escaped(s, q) ==
    IF s = "" THEN ""
    ELSE (CASE Char(s, 1) = "\\" -> "\\\\"
            [] Char(s, 1) = "\n" -> "\\n"
            [] Char(s, 1) = "\r" -> "\\r"
            [] Char(s, 1) = "\f" -> "\\x0c"
            [] Char(s, 1) = q -> "\\" \o q
            [] OTHER -> Char(s, 1)) \o Escaped(Tail(s), q)

\* repr(s) of a str: in single quotes, unless s holds a single quote and
\* no double quote, and then in double quotes
StrRepr(s) ==
    IF HasChar(s, "'") /\ ~HasChar(s, "\"")
    THEN "\"" \o Escaped(s, "\"") \o "\""
    ELSE "'" \o Escaped(s, "'") \o "'"

RECURSIVE PyRepr(_, _)
\* repr(v): a str in quotes, True or False for a bool, a list in brackets,
\* a dict (or a Document, which has dict's repr) in braces with every raw
\* entry
PyRepr(h, v) ==
    IF v.t = "int" THEN IntStr(v.i)
    ELSE IF v.t = "bool" THEN (IF v.i = 1 THEN "True" ELSE "False")
    ELSE IF v.t = "str" THEN StrRepr(v.s)
    ELSE IF v.t = "ref" /\ h[v.i].kind = "list"
    THEN "[" \o Join(", ", [j \in 1..Len(h[v.i].ents) |-> PyRepr(h, h[v.i].ents[j].v)]) \o "]"
    ELSE IF v.t = "ref"
    THEN "{" \o Join(", ", [j \in 1..Len(h[v.i].ents) |->
                StrRepr(h[v.i].ents[j].k) \o ": " \o PyRepr(h, h[v.i].ents[j].v)]) \o "}"
    ELSE IF v.t = "tuple" THEN "('" \o v.s \o "',)"
    ELSE "None"

\* '%s' % v, str(v), of a value that is not a Document
PyStr(h, v) == IF v.t = "str" THEN v.s ELSE PyRepr(h, v)

---------------------------------------------------------------------------
(* vstr and its helpers *)

\* characters recommended as headers by the ReST docs, then the other valid ones
headings ==
    <<"=", "-", Backquote, ":", ".", "'", "\"", "~", "^", "_", "*", "+", "#",
      "!", "$", "%", "&", "(", ")", ",", "/", ";", "<", ">", "?", "@",
      "[", "\\", "]", "{", "|", "}">>
name_width == 16
value_width == 40
\* the slice k[:16] applied to a key before it is printed
KeyCut == 16
Cut(k) == IF Len(k) > KeyCut THEN SubSeq(k, 1, KeyCut) ELSE k

Text(exc, s) == [exc |-> exc, s |-> s]

\* the one element of a singleton set.  {F(x) : x \in {e}} computes e once
\* and names its value x in F, as an assignment to a local variable does.
The(S) == CHOOSE x \in S : TRUE

\* v.items() of a mapping: all entries of a dict; the non-reserved ones of a
\* Document, whose items attribute is looked up on the instance first
ItemsOf(h, v) ==
    IF h[v.i].kind = "Document"
    THEN IF Callable(h, v.i, "items")
         THEN [exc |-> "", ents |-> NonReserved(h[v.i].ents)]
         ELSE [exc |-> "TypeError", ents |-> <<>>]
    ELSE [exc |-> "", ents |-> h[v.i].ents]

\* v.values() of a mapping, as entries
ValuesOf(h, v) ==
    IF h[v.i].kind = "Document"
    THEN IF Callable(h, v.i, "values")
         THEN [exc |-> "", ents |-> NonReserved(h[v.i].ents)]
         ELSE [exc |-> "TypeError", ents |-> <<>>]
    ELSE [exc |-> "", ents |-> h[v.i].ents]

RECURSIVE InsertSorted(_, _)
InsertSorted(e, ents) ==
    IF ents = <<>> THEN <<e>>
    ELSE IF StrLess(e.k, Head(ents).k) THEN <<e>> \o ents
    ELSE <<Head(ents)>> \o InsertSorted(e, Tail(ents))

RECURSIVE Sorted(_)
\* sorted(items): the keys of a dict are distinct, so the keys alone decide
Sorted(ents) ==
    IF ents = <<>> THEN <<>>
    ELSE The({InsertSorted(ents[Len(ents)], rest) : rest \in {Sorted(SubSeq(ents, 1, Len(ents) - 1))}})

\* "\n%s%-16s: %-40s" % ('  ' * tabs, k[:16], v)
Line(h, tabs, k, v) ==
    "\n" \o Repeat("  ", tabs) \o LJust(Cut(k), name_width) \o ": " \o LJust(PyStr(h, v), value_width)

RECURSIVE FormatDictLoop(_, _, _, _)
RECURSIVE FormatDict(_, _, _)
\* the body of the loop of _format_dict over the entries still to visit
FormatDictLoop(h, ents, tabs, ret) ==
    IF ents = <<>> THEN Text("", ret)
    ELSE IF IsMapping(h, Head(ents).v)
    THEN The({IF r.exc # "" THEN r ELSE FormatDictLoop(h, Tail(ents), tabs, ret \o r.s) :
                r \in {FormatDict(h, Head(ents).v, tabs + 1)}})
    ELSE FormatDictLoop(h, Tail(ents), tabs, ret \o Line(h, tabs, Head(ents).k, Head(ents).v))

\* _format_dict(value, name_width, value_width, name, tabs): the entries of
\* value.items() in the order the mapping holds them
FormatDict(h, v, tabs) ==
    The({IF items.exc # "" THEN Text(items.exc, "")
         ELSE FormatDictLoop(h, items.ents, tabs, "") :
            items \in {ItemsOf(h, v)}})

RECURSIVE SetUnion(_, _)
\* the set that takes the members of the sets one set after the other: a
\* member equal to one already there (1 and True are equal) is dropped
SetUnion(sets, acc) ==
    IF sets = <<>> THEN acc
    ELSE SetUnion(Tail(sets),
                  acc \cup {x \in Head(sets) :
                              ~\E y \in acc : IsNumber(x) /\ IsNumber(y) /\ x.i = y.i})

\* set(v) of one value of the data_keys mapping: the values a loop over v
\* visits (the keys of a mapping, the elements of a list, the characters of
\* a str), each of which must be hashable
FieldSet(h, v) ==
    IF IterOf(h, v).exc # "" THEN [exc |-> "TypeError", set |-> {}]
    ELSE IF \E j \in 1..Len(IterOf(h, v).vals) : IsRef(IterOf(h, v).vals[j])
    THEN [exc |-> "TypeError", set |-> {}]
    ELSE [exc |-> "", set |-> SetUnion([j \in 1..Len(IterOf(h, v).vals) |-> {IterOf(h, v).vals[j]}], {})]

\* a < b on two values of the same type (a bool counts as an int)
ValueLess(a, b) == IF a.t = "str" THEN StrLess(a.s, b.s) ELSE a.i < b.i

RECURSIVE SortedOf(_)
\* the members of S from the smallest to the largest
SortedOf(S) ==
    IF S = {} THEN <<>>
    ELSE LET m == CHOOSE x \in S : \A y \in S \ {x} : ValueLess(x, y)
         IN  <<m>> \o SortedOf(S \ {m})

\* sorted(list(fields)): strs among themselves or numbers among
\* themselves; any other comparison of two members raises TypeError
SortedValues(S) ==
    IF Cardinality(S) <= 1 \/ (\A x \in S : x.t = "str") \/ (\A x \in S : IsNumber(x))
    THEN [exc |-> "", vals |-> SortedOf(S)]
    ELSE [exc |-> "TypeError", vals |-> <<>>]

\* key_dict.get(fld, '')
Cell(h, v, fld) ==
    IF ~IsMapping(h, v) THEN Raise("AttributeError")
    ELSE IF IsDocument(h, v) /\ ~Callable(h, v.i, "get") THEN Raise("TypeError")
    ELSE IF fld.t = "str" /\ HasKey(h[v.i].ents, fld.s) THEN Ok(Get(h[v.i].ents, fld.s))
    ELSE Ok(StrV(""))

\* _format_data_keys_dict: the table as rows of values: the header row
\* ("data keys" and the sorted union of the inner keys), then one row per
\* outer key in sorted order
FormatDataKeysDict(h, v) ==
    IF ~IsMapping(h, v) THEN [exc |-> "AttributeError", rows |-> <<>>]
    ELSE IF ValuesOf(h, v).exc # "" THEN [exc |-> "TypeError", rows |-> <<>>]
    ELSE LET vals == ValuesOf(h, v).ents
             sets == [j \in 1..Len(vals) |-> FieldSet(h, vals[j].v)]
             sorted == SortedValues(SetUnion([j \in 1..Len(vals) |-> sets[j].set], {}))
             fields == sorted.vals
             items == ItemsOf(h, v)
             rows == [j \in 1..Len(items.ents) |->
                        [c \in 1..(Len(fields) + 1) |->
                            IF c = 1 THEN Ok(StrV(Sorted(items.ents)[j].k))
                            ELSE Cell(h, Sorted(items.ents)[j].v, fields[c - 1])]]
         IN  IF \E j \in 1..Len(vals) : sets[j].exc # "" THEN [exc |-> "TypeError", rows |-> <<>>]
             ELSE IF vals = <<>> THEN [exc |-> "TypeError", rows |-> <<>>]
             ELSE IF sorted.exc # "" THEN [exc |-> sorted.exc, rows |-> <<>>]
             ELSE IF items.exc # "" THEN [exc |-> items.exc, rows |-> <<>>]
             ELSE IF \E j \in 1..Len(rows) : \E c \in 1..Len(rows[j]) : rows[j][c].exc # ""
             THEN LET bad == {jc \in (1..Len(rows)) \X (1..(Len(fields) + 1)) : rows[jc[1]][jc[2]].exc # ""}
                      fst == CHOOSE jc \in bad : \A o \in bad :
                                jc[1] < o[1] \/ (jc[1] = o[1] /\ jc[2] <= o[2])
                  IN  [exc |-> rows[fst[1]][fst[2]].exc, rows |-> <<>>]
             ELSE [exc |-> "",
                   rows |-> <<<<StrV("data keys")>> \o fields>> \o
                            [j \in 1..Len(rows) |-> [c \in 1..Len(rows[j]) |-> rows[j][c].val]]]

Max(S) == CHOOSE x \in S : \A y \in S : y <= x

\* a cell of the table: the first column flush left, the others centred,
\* an odd excess going right of a text of odd length and left of an even one
Justify(cell, width, left) ==
    LET excess == width - Len(cell)
    IN  IF left THEN cell \o Repeat(" ", excess)
        ELSE IF excess % 2 = 1 /\ Len(cell) % 2 = 1
        THEN Repeat(" ", excess \div 2) \o cell \o Repeat(" ", (excess \div 2) + 1)
        ELSE IF excess % 2 = 1
        THEN Repeat(" ", (excess \div 2) + 1) \o cell \o Repeat(" ", excess \div 2)
        ELSE Repeat(" ", excess \div 2) \o cell \o Repeat(" ", excess \div 2)

RECURSIVE Vstr(_, _, _)
RECURSIVE VstrLoop(_, _, _, _)
RECURSIVE VstrDocuments(_, _, _, _)

\* str(v): Document.__str__ is vstr(self)
Str(h, v) == IF IsDocument(h, v) THEN Vstr(h, v, 0) ELSE Text("", PyStr(h, v))

\* the table of texts drawn: a frame, the header, a rule, the rows, with
\* one space of padding around every cell; a text of several lines makes
\* its row as many lines high, the shorter cells filled up below
TableDraw(texts) ==
    LET ncol == Len(texts[1])
        lines == [j \in 1..Len(texts) |-> [c \in 1..ncol |-> Split(texts[j][c])]]
        width == [c \in 1..ncol |->
                    Max(UNION {{Len(lines[j][c][y]) : y \in 1..Len(lines[j][c])} : j \in 1..Len(texts)})]
        height == [j \in 1..Len(texts) |-> Max({Len(lines[j][c]) : c \in 1..ncol})]
        line(j, c, y) == IF y <= Len(lines[j][c]) THEN lines[j][c][y] ELSE ""
        rule == "+" \o Join("+", [c \in 1..ncol |-> Repeat("-", width[c] + 2)]) \o "+"
        row(j) == Join("\n", [y \in 1..height[j] |->
                    "|" \o Join("|", [c \in 1..ncol |->
                            " " \o Justify(line(j, c, y), width[c], c = 1) \o " "]) \o "|"])
    IN  Join("\n", <<rule, row(1), rule>> \o [j \in 1..(Len(texts) - 1) |-> row(j + 1)] \o <<rule>>)

\* str(table) of the table library: every cell is turned into text with
\* str(), row after row, and the table of the texts is drawn
TableStr(h, rows) ==
    The({IF \E j \in 1..Len(rows) : \E c \in 1..Len(rows[j]) : texts[j][c].exc # ""
         THEN LET bad == {jc \in (1..Len(rows)) \X (1..Len(rows[1])) : texts[jc[1]][jc[2]].exc # ""}
                  fst == CHOOSE jc \in bad : \A o \in bad :
                            jc[1] < o[1] \/ (jc[1] = o[1] /\ jc[2] <= o[2])
              IN  Text(texts[fst[1]][fst[2]].exc, "")
         ELSE Text("", TableDraw([j \in 1..Len(rows) |-> [c \in 1..Len(rows[j]) |-> texts[j][c].s]])) :
            texts \in {[j \in 1..Len(rows) |-> [c \in 1..Len(rows[j]) |-> Str(h, rows[j][c])]]}})

\* the first loop of vstr over the sorted entries still to visit; ret is the
\* text so far and documents the values deferred to nested sections
VstrLoop(h, ents, ret, documents) ==
    IF ents = <<>> THEN [exc |-> "", s |-> ret, documents |-> documents]
    ELSE The({
        IF name = "descriptors"
        THEN The({IF it.exc # ""
                  THEN [exc |-> it.exc, s |-> ret, documents |-> documents]
                  ELSE VstrLoop(h, Tail(ents), ret, documents \o it.vals) :
                    it \in {IterOf(h, value)}})
        ELSE IF name = "data_keys"
        THEN The({IF table.exc # ""
                  THEN [exc |-> table.exc, s |-> ret, documents |-> documents]
                  ELSE The({IF drawn.exc # ""
                            THEN [exc |-> drawn.exc, s |-> ret, documents |-> documents]
                            ELSE VstrLoop(h, Tail(ents), ret \o "\n" \o drawn.s, documents) :
                                drawn \in {TableStr(h, table.rows)}}) :
                    table \in {FormatDataKeysDict(h, value)}})
        ELSE IF IsMapping(h, value)
        THEN IF Contains(h, value.i, "_name")
             THEN VstrLoop(h, Tail(ents), ret, Append(documents, value))
             ELSE The({IF block.exc # ""
                       THEN [exc |-> block.exc, s |-> ret, documents |-> documents]
                       ELSE VstrLoop(h, Tail(ents),
                                     ret \o "\n" \o LJust(name, name_width) \o ":" \o block.s,
                                     documents) :
                        block \in {FormatDict(h, value, 1)}})
        ELSE VstrLoop(h, Tail(ents), ret \o Line(h, 0, name, value), documents) :
            name \in {Head(ents).k}, value \in {Head(ents).v}})

\* the second loop of vstr: every deferred value becomes a section one level deeper
VstrDocuments(h, documents, ret, indent) ==
    IF documents = <<>> THEN Text("", ret)
    ELSE The({IF r.exc # "" THEN r
              ELSE VstrDocuments(h, Tail(documents), ret \o "\n" \o r.s, indent) :
                r \in {Vstr(h, Head(documents), indent + 1)}})

\* the end of vstr: ret.split('\n'), every line indented by two spaces per
\* level, and the lines joined again
VstrIndent(ret, indent) ==
    The({Join("\n", [j \in 1..Len(lines) |-> Repeat("  ", indent) \o lines[j]]) :
            lines \in {Split(ret)}})

\* len(v): of a str, a list, a dict, a tuple; of a Document through its
\* __len__; any other value has no len()
ValueLen(h, v) ==
    IF v.t = "str" THEN Ok(IntV(Len(v.s)))
    ELSE IF IsDocument(h, v) THEN DocLen(h, v.i)
    ELSE IF IsRef(v) THEN Ok(IntV(Len(h[v.i].ents)))
    ELSE IF v.t = "tuple" THEN Ok(IntV(v.i))
    ELSE Raise("TypeError")

\* the first lines of vstr: "\n%s\n%s" % (name, headings[indent]*len(name)).
\* CPython 3.11 builds the text piece by piece: str(name) first, then the
\* heading character headings[indent], then len(name)
VstrHeader(h, name, indent) ==
    The({
        IF title.exc # "" THEN title
        ELSE IF indent >= Len(headings) THEN Text("IndexError", "")
        ELSE The({IF width.exc # "" THEN Text(width.exc, "")
                  ELSE Text("", "\n" \o title.s \o "\n"
                                    \o Repeat(headings[indent + 1], width.val.i)) :
                    width \in {ValueLen(h, name)}}) :
            title \in {Str(h, name)}})

\* vstr(doc, indent): the header, the sorted entries, the nested sections,
\* and every line of the result indented
Vstr(h, v, indent) ==
    The({
        IF name.exc # "" THEN Text(name.exc, "")
        ELSE The({
            IF header.exc # "" THEN header
            ELSE IF items.exc # "" THEN Text(items.exc, "")
            ELSE The({
                IF first.exc # "" THEN Text(first.exc, "")
                ELSE The({IF second.exc # "" THEN second
                          ELSE Text("", VstrIndent(second.s, indent)) :
                            second \in {VstrDocuments(h, first.documents, first.s, indent)}}) :
                    first \in {VstrLoop(h, Sorted(items.ents), header.s, <<>>)}}) :
                header \in {VstrHeader(h, name.val, indent)}}) :
            name \in {Subscript(h, v, "_name")},
            items \in {IF IsMapping(h, v) THEN ItemsOf(h, v) ELSE [exc |-> "AttributeError", ents |-> <<>>]}})


---------------------------------------------------------------------------
(* State machine of one Document built from a flat mapping *)

Res(op, key, exc, val) == [op |-> op, key |-> key, exc |-> exc, val |-> val]
NoRes == Res("", "", "", NoneV)
NoPair == [name |-> NoneV, ret |-> 0]
\* str() has not been called yet
Unset == Text("unset", "")
NoText == [one |-> Unset, two |-> Unset]

\* keys a caller may put in the initial mapping: plain keys, a key with the
\* reserved prefix, and keys that are also names of Document methods
FlatKeys == {"a", "_x", "keys", "pop"}
ViewKeys == {"a", "_x", "keys", "items", "values"}
FlatValues == {IntV(1)}

\* the dict literals of at most n entries over the given keys and values
\* (keys are distinct in a dict)
Mappings(keys, values, n) ==
    UNION {{m \in [1..len -> {Entry(k, v) : k \in keys, v \in values}] :
                \A i, j \in 1..len : i # j => m[i].k # m[j].k} : len \in 0..n}

Names == {StrV("n")}

\* keys used as arguments: present or absent, reserved or not, and names
\* of attributes of the type
WriteKeys == {"a", "_name", "zz"}
ReadKeys == {"a", "_x", "_name", "keys", "pop", "zz", "__dict__", "__doc__"}
ArgValues == {IntV(7)}
\* names given to __setstate__ and to a second __init__
StateNames == {StrV("q")}

\* initial = {...}; doc = Document(name, initial)
InitFlat(keys) ==
    \E m \in Mappings(keys, FlatValues, MaxKeys), name \in Names :
        /\ initial = 1
        /\ doc = 2
        /\ heap = DocumentInit([EmptyHeap EXCEPT ![1] = Obj("dict", m)], 2, name, 1).h
        /\ heap0 = heap
        /\ doc2 = 0
        /\ pair = NoPair
        /\ gen = NoGen
        /\ text = NoText
        /\ res = NoRes

\* the generator is invalidated for the claims once the store it walks changes
Touch(g, h1, h2) == IF g.kind # "none" /\ h1[doc] # h2[doc] THEN [g EXCEPT !.dirty = TRUE] ELSE g

Write(op, k, o) ==
    /\ heap' = o.h
    /\ res' = Res(op, k, o.exc, NoneV)
    /\ gen' = Touch(gen, heap, o.h)
    /\ UNCHANGED <<heap0, doc, initial, doc2, pair, text>>

Read(op, k, o) ==
    /\ res' = Res(op, k, o.exc, o.val)
    /\ UNCHANGED <<heap, heap0, doc, initial, doc2, pair, gen, text>>

\* d[k] = v
SetItem == \E k \in WriteKeys, v \in ArgValues : Write("set_item", k, DocSetItem(heap, doc, k, v))
\* setattr(d, k, v)
SetAttr == \E k \in WriteKeys, v \in ArgValues : Write("set_attr", k, DocSetAttr(heap, doc, k, v))
\* del d[k]
DelItem == \E k \in WriteKeys : Write("del_item", k, DocDelItem(heap, doc, k))
\* delattr(d, k)
DelAttr == \E k \in WriteKeys : Write("del_attr", k, DocDelAttr(heap, doc, k))
\* d.update({k: v})
Update == \E k \in WriteKeys, v \in ArgValues : Write("update", k, DocUpdate(heap, doc, <<Entry(k, v)>>))
\* d.pop(k)
Pop == \E k \in WriteKeys : Write("pop", k, DocPop(heap, doc, k))

\* d[k]
GetItemOp == \E k \in ReadKeys : Read("get_item", k, GetItem(heap, doc, k))
\* getattr(d, k)
GetAttrOp == \E k \in ReadKeys : Read("get_attr", k, GetAttr(heap, doc, k))
\* k in d
ContainsOp == \E k \in WriteKeys : Read("contains", k, Ok(BoolV(Contains(heap, doc, k))))
\* len(d)
LenOp == Read("len", "", DocLen(heap, doc))

\* d.clear()
Clear == Write("clear", "", DictClear(heap, doc))
\* d.setdefault(k, v)
SetDefault ==
    \E k \in {"b"}, v \in ArgValues :
        /\ Len(heap[doc].ents) < MaxLen
        /\ Write("setdefault", k, DictSetDefault(heap, doc, k, v))
\* d.popitem()
PopItem == Write("popitem", "", DictPopItem(heap, doc))
\* d |= {k: v}
IOr ==
    \E k \in {"a"}, v \in ArgValues :
        /\ Len(heap[doc].ents) < MaxLen
        /\ Write("ior", k, DictIOr(heap, doc, <<Entry(k, v)>>))

\* d.__setstate__((name, initial)), with the mapping the caller still holds
SetState ==
    \E name \in StateNames :
        /\ Write("setstate", "", DocSetState(heap, doc, name, initial))

\* d.__init__(name, initial) on the built Document
ReInit ==
    \E name \in StateNames :
        /\ Write("init", "", DocReInit(heap, doc, name, initial))

\* d.__getstate__()
GetState ==
    Read("getstate", "", Out(DocGetState(heap, doc).exc, DocGetState(heap, doc).name))

\* name, dd = d.to_name_dict_pair(); new = Document(name, dd); new == d
\* (dd and new are temporaries of the caller: they are dropped afterwards)
RoundTrip ==
    LET r == Alloc(heap)
        o == ToNameDictPair(heap, doc, r)
        n == Alloc(o.h)
        h2 == DocumentInit(o.h, n, o.name, r).h
    IN  /\ r # 0
        /\ IF o.exc = ""
           THEN /\ n # 0
                /\ res' = Res("round_trip", "", "", BoolV(PyEq(h2, RefV(n), RefV(doc))))
           ELSE res' = Res("round_trip", "", o.exc, NoneV)
        /\ UNCHANGED <<heap, heap0, doc, initial, doc2, pair, gen, text>>

Next ==
    \/ SetItem \/ SetAttr \/ DelItem \/ DelAttr \/ Update \/ Pop
    \/ GetItemOp \/ GetAttrOp \/ ContainsOp \/ LenOp
    \/ Clear \/ SetDefault \/ PopItem \/ IOr
    \/ SetState \/ ReInit \/ GetState
    \/ RoundTrip

Spec == InitFlat(FlatKeys) /\ [][Next]_vars

---------------------------------------------------------------------------
(* Claims about the Document API, under Spec *)

WriteOps == {"set_item", "set_attr", "del_item", "del_attr", "update", "pop"}

\* C1: each of the six write operations set_item, set_attr, del_item,
\* del_attr, update and pop, on any Document and with any key, fails with
\* DocumentIsReadOnly and leaves the whole underlying store as it was.
C1_WritesFailReadOnly ==
    [][res'.op \in WriteOps =>
            /\ res'.exc = "DocumentIsReadOnly"
            /\ heap'[doc] = heap[doc]]_vars

\* C2: once a Document is constructed, no sequence of operations callable
\* on it (clear, setdefault, popitem and in-place merge included) changes
\* its top-level keys or their values.
C2_StoreNeverChanges == heap[doc] = heap0[doc]

\* C3: whenever to_name_dict_pair() returns (name, payload), the Document
\* built from (name, payload) is equal to the original, payload keys that
\* begin with '_' included.
C3_RoundTrip == res.op = "round_trip" /\ res.exc = "" => res.val = BoolV(TRUE)

\* C5: for a non-reserved key k present in d, getattr(d, k) returns what
\* d[k] returns; for a k that is neither a key of d nor an attribute of the
\* Document type, getattr(d, k) fails with AttributeError.
C5_AttrItemEquivalence ==
    res.op = "get_attr" =>
        /\ HasKey(heap[doc].ents, res.key) /\ ~IsReserved(res.key) =>
                /\ res.exc = ""
                /\ GetItem(heap, doc, res.key).exc = ""
                /\ res.val = GetItem(heap, doc, res.key).val
        /\ ~HasKey(heap[doc].ents, res.key) /\ res.key \notin TypeAttrs \cup DataDescriptors =>
                res.exc = "AttributeError"

\* C5 witness: attribute lookup of a present key that is also the name of a
\* Document method has returned the stored value.
C5_Witness ==
    /\ res.op = "get_attr"
    /\ res.key = "keys"
    /\ HasKey(heap[doc].ents, "keys")
    /\ res.exc = ""
    /\ res.val = Get(heap[doc].ents, "keys")

---------------------------------------------------------------------------
(* State machine of the generators of one Document *)

View(kind, o) ==
    /\ gen' = o.gen
    /\ res' = Res(kind, "", o.exc, NoneV)
    /\ UNCHANGED <<heap, heap0, doc, initial, doc2, pair, text>>

\* g = d.keys()
KeysOp == View("keys", DocView(heap, doc, "keys"))
\* g = d.values()
ValuesOp == View("values", DocView(heap, doc, "values"))
\* g = d.items()
ItemsOp == View("items", DocView(heap, doc, "items"))
\* g = iter(d)
IterOp == View("iter", DocIter(heap, doc))

\* next(g)
GenNext ==
    /\ gen.kind # "none"
    /\ gen.pass < MaxPasses
    /\ gen' = GenStep(gen, heap[doc].ents).gen
    /\ res' = Res("next", "", GenStep(gen, heap[doc].ents).exc, NoneV)
    /\ UNCHANGED <<heap, heap0, doc, initial, doc2, pair, text>>

NextViews ==
    \/ KeysOp \/ ValuesOp \/ ItemsOp \/ IterOp
    \/ GenNext
    \/ LenOp
    \/ Clear \/ PopItem

SpecViews == InitFlat(ViewKeys) /\ [][NextViews]_vars

---------------------------------------------------------------------------
(* Claims about the generators, under SpecViews *)

\* what a full pass of a generator of this kind over these entries yields
FullPass(kind, ents) == YieldAll(kind, NonReserved(ents))

\* C4: keys(), items(), values(), iteration and len() succeed on every
\* Document, whatever its keys are called; '_name' is never yielded; and
\* len(d) is the number of pairs items() yields.
C4_NameHiding ==
    /\ res.op \in {"keys", "items", "values", "iter", "len"} => res.exc = ""
    /\ \A j \in 1..Len(gen.out) : gen.out[j].k # "_name"
    /\ res.op = "len" /\ res.exc = "" => res.val = IntV(Len(FullPass("items", heap[doc].ents)))

\* C8 as stated: the object returned by one call to keys(), values() or
\* items() can be traversed any number of times, and every traversal that
\* has reached the end has yielded a full pass.
C8_Restartable ==
    gen.pass >= 1 /\ ~gen.dirty => gen.out = FullPass(gen.kind, gen.snap)

\* C8 amended: the returned object is a one-shot generator: its first
\* traversal, when the store is not modified meanwhile, yields a full pass
\* over the non-reserved entries; every later traversal of the same object
\* yields nothing.
C8_OneShot ==
    /\ gen.pass = 1 /\ ~gen.dirty => gen.out = FullPass(gen.kind, gen.snap)
    /\ gen.pass >= 2 => gen.out = <<>>

\* C8 witness: the second traversal of the generator returned by keys() on
\* a Document with two non-reserved entries has ended, with nothing yielded.
C8_Witness ==
    /\ gen.kind = "keys"
    /\ gen.pass = 2
    /\ ~gen.dirty
    /\ Len(NonReserved(gen.snap)) = 2
    /\ gen.out = <<>>

---------------------------------------------------------------------------
(* State machine of the text rendering of two Documents with equal contents *)

\* nested values a payload may hold: two plain mappings with the same
\* entries in different insertion orders, a Document, a list of Documents
FmtLibrary ==
    [EmptyHeap EXCEPT
        ![1] = Obj("dict", <<Entry("x", IntV(1)), Entry("y", IntV(2))>>),
        ![2] = Obj("dict", <<Entry("y", IntV(2)), Entry("x", IntV(1))>>),
        ![3] = Obj("Document", <<Entry("k", StrV("v")), Entry("_name", StrV("sub"))>>),
        ![4] = Obj("list", <<Entry("", RefV(3))>>),
        ![5] = Obj("dict", <<>>)]
FmtKeys == {"a", "m", "descriptors"}
FmtValues == {IntV(1), StrV("v"), RefV(1), RefV(2), RefV(3), RefV(4), RefV(5)}

\* doc = Document(name, m); doc2 = Document(name, m2), where m2 == m holds
\* at every nesting level and the insertion orders are free
InitFmt ==
    \E m \in Mappings(FmtKeys, FmtValues, MaxKeys), name \in Names :
        \E m2 \in Mappings(FmtKeys, FmtValues, MaxKeys) :
            LET h == [FmtLibrary EXCEPT ![6] = Obj("dict", m), ![8] = Obj("dict", m2)]
            IN  /\ PyEq(h, RefV(6), RefV(8))
                /\ initial = 6
                /\ doc = 7
                /\ doc2 = 9
                /\ heap = DocumentInit(DocumentInit(h, 7, name, 6).h, 9, name, 8).h
                /\ heap0 = heap
                /\ pair = NoPair
                /\ gen = NoGen
                /\ text = NoText
                /\ res = NoRes

\* str(doc)
StrOne ==
    /\ text' = [text EXCEPT !.one = Str(heap, RefV(doc))]
    /\ res' = Res("str", "one", Str(heap, RefV(doc)).exc, NoneV)
    /\ UNCHANGED <<heap, heap0, doc, initial, doc2, pair, gen>>

\* str(doc2)
StrTwo ==
    /\ text' = [text EXCEPT !.two = Str(heap, RefV(doc2))]
    /\ res' = Res("str", "two", Str(heap, RefV(doc2)).exc, NoneV)
    /\ UNCHANGED <<heap, heap0, doc, initial, doc2, pair, gen>>

NextFmt == StrOne \/ StrTwo

SpecFmt == InitFmt /\ [][NextFmt]_vars

\* C7: two Documents with the same name and equal contents at every nesting
\* level, whatever the insertion orders, are rendered to the same text.
C7_OrderIndependent ==
    /\ PyEq(heap, RefV(doc), RefV(doc2))
    /\ text.one.exc = "" /\ text.two.exc = "" => text.one.s = text.two.s

\* C10: when the value under 'descriptors' is a mapping, the descriptors
\* special case does not apply and rendering completes without error.
C10_DescriptorsMapping ==
    /\ text.one # Unset
    /\ HasKey(heap[doc].ents, "descriptors")
    /\ IsMapping(heap, Get(heap[doc].ents, "descriptors"))
    => text.one.exc = ""

---------------------------------------------------------------------------
(* State machine of ref_doc_to_uid *)

\* a Document with a 'uid' entry and one without
RefLibrary ==
    [EmptyHeap EXCEPT
        ![1] = Obj("Document", <<Entry("uid", StrV("U")), Entry("animal", StrV("aardvark")),
                                 Entry("_name", StrV("animal"))>>),
        ![2] = Obj("Document", <<Entry("animal", StrV("aardvark")), Entry("_name", StrV("animal"))>>)]
RefKeys == {"name", "prime_attraction", "_x"}
RefValues == {StrV("BNL Zoo"), RefV(1), RefV(2)}
RefFields == {"name", "prime_attraction", "zz"}

\* zoo = Document(name, m)
InitRef ==
    \E m \in Mappings(RefKeys, RefValues, MaxKeys), name \in Names :
        /\ initial = 3
        /\ doc = 4
        /\ heap = DocumentInit([RefLibrary EXCEPT ![3] = Obj("dict", m)], 4, name, 3).h
        /\ heap0 = heap
        /\ doc2 = 0
        /\ pair = NoPair
        /\ gen = NoGen
        /\ text = NoText
        /\ res = NoRes

\* doc2 = ref_doc_to_uid(doc, field)
RefDocToUidOp ==
    \E field \in RefFields :
        LET h1 == Release(heap, doc2)
            r == Alloc(h1)
            n == Alloc([h1 EXCEPT ![r] = Obj("dict", <<>>)])
            o == RefDocToUid(h1, doc, field, r, n)
        IN  /\ r # 0 /\ n # 0
            /\ heap' = o.h
            /\ doc2' = IF o.exc = "" THEN n ELSE 0
            /\ res' = Res("ref_doc_to_uid", field, o.exc, NoneV)
            /\ UNCHANGED <<heap0, doc, initial, pair, gen, text>>

NextRef == RefDocToUidOp

SpecRef == InitRef /\ [][NextRef]_vars

\* C6: when doc[field] is a Document with a 'uid' entry, ref_doc_to_uid
\* returns a new Document with the name of doc, whose field entry is that
\* uid and whose other entries are all those of doc, none missing; doc and
\* the nested Document are left as they were.
C6_RefDocToUid ==
    /\ res.op = "ref_doc_to_uid"
    /\ HasKey(heap0[doc].ents, res.key)
    /\ IsDocument(heap0, Get(heap0[doc].ents, res.key))
    /\ HasKey(heap0[Get(heap0[doc].ents, res.key).i].ents, "uid")
    => /\ res.exc = ""
       /\ doc2 # 0
       /\ Get(heap[doc2].ents, "_name") = Get(heap0[doc].ents, "_name")
       /\ Get(heap[doc2].ents, res.key) = Get(heap0[Get(heap0[doc].ents, res.key).i].ents, "uid")
       /\ \A k \in KeySet(heap0[doc].ents) \ {res.key} :
            HasKey(heap[doc2].ents, k) /\ PyEq(heap, Get(heap[doc2].ents, k), Get(heap0[doc].ents, k))
       /\ \A a \in {1, 2, doc} : heap[a] = heap0[a]

---------------------------------------------------------------------------
(* State machine of the copies: the mapping given to the constructor, the  *)
(* Document, and the mapping to_name_dict_pair returns, with the caller    *)
(* mutating the plain mappings and what they hold                          *)

\* a nested plain mapping and a nested list
CopyLibrary ==
    [EmptyHeap EXCEPT
        ![1] = Obj("dict", <<Entry("x", IntV(1))>>),
        ![2] = Obj("list", <<Entry("", IntV(1))>>)]
CopyKeys == {"a", "m"}
CopyValues == {IntV(1), RefV(1), RefV(2)}

\* initial = {...}; doc = Document(name, initial)
InitCopy ==
    \E m \in Mappings(CopyKeys, CopyValues, MaxKeys), name \in Names :
        /\ initial = 3
        /\ doc = 4
        /\ heap = DocumentInit([CopyLibrary EXCEPT ![3] = Obj("dict", m)], 4, name, 3).h
        /\ heap0 = heap
        /\ doc2 = 0
        /\ pair = NoPair
        /\ gen = NoGen
        /\ text = NoText
        /\ res = NoRes

\* name, dd = doc.to_name_dict_pair()
ToNameDictPairOp ==
    LET h1 == Release(heap, pair.ret)
        r == Alloc(h1)
        o == ToNameDictPair(h1, doc, r)
    IN  /\ r # 0
        /\ heap' = o.h
        /\ pair' = IF o.exc = "" THEN [name |-> o.name, ret |-> r] ELSE NoPair
        /\ res' = Res("to_name_dict_pair", "", o.exc, NoneV)
        /\ UNCHANGED <<heap0, doc, initial, doc2, gen, text>>

\* the plain mappings the caller holds: the initial mapping and dd
Held == {initial} \cup (IF pair.ret = 0 THEN {} ELSE {pair.ret})

Mutate(op, k, a, ents) ==
    /\ heap' = [heap EXCEPT ![a].ents = ents]
    /\ res' = Res(op, k, "", RefV(a))
    /\ UNCHANGED <<heap0, doc, initial, doc2, pair, gen, text>>

\* m[k] = v on a mapping the caller holds
TopSet ==
    \E a \in Held, k \in {"a", "new"}, v \in ArgValues :
        /\ Len(heap[a].ents) < MaxLen
        /\ Mutate("top_set", k, a, DictSet(heap[a].ents, k, v))

\* del m[k] on a mapping the caller holds
TopDel ==
    \E a \in Held, k \in CopyKeys :
        /\ HasKey(heap[a].ents, k)
        /\ Mutate("top_del", k, a, DictDel(heap[a].ents, k))

\* m[k]['x'] = v, where m[k] is a plain mapping
NestedSet ==
    \E a \in Held, k \in CopyKeys, v \in ArgValues :
        /\ HasKey(heap[a].ents, k)
        /\ IsRef(Get(heap[a].ents, k))
        /\ heap[Get(heap[a].ents, k).i].kind = "dict"
        /\ Mutate("nested_set", k, Get(heap[a].ents, k).i,
                  DictSet(heap[Get(heap[a].ents, k).i].ents, "x", v))

\* m[k].append(v), where m[k] is a list
NestedAppend ==
    \E a \in Held, k \in CopyKeys, v \in ArgValues :
        /\ HasKey(heap[a].ents, k)
        /\ IsList(heap, Get(heap[a].ents, k))
        /\ Len(heap[Get(heap[a].ents, k).i].ents) < MaxLen
        /\ Mutate("nested_append", k, Get(heap[a].ents, k).i,
                  Append(heap[Get(heap[a].ents, k).i].ents, Entry("", v)))

NextCopy == ToNameDictPairOp \/ TopSet \/ TopDel \/ NestedSet \/ NestedAppend

SpecCopy == InitCopy /\ [][NextCopy]_vars

RECURSIVE Deep(_, _)
\* a value with every reference replaced by what it refers to
Deep(h, v) ==
    IF IsRef(v)
    THEN [kind |-> h[v.i].kind,
          ents |-> [j \in 1..Len(h[v.i].ents) |->
                        [k |-> h[v.i].ents[j].k, v |-> Deep(h, h[v.i].ents[j].v)]]]
    ELSE [kind |-> v.t, ents |-> <<[k |-> v.s, v |-> v.i]>>]

\* C9 as stated: whatever is done to the returned mapping, to the initial
\* mapping and to anything reachable from them, every value observable
\* through d, at every nesting level, stays what it was, and the returned
\* mapping has no '_name' key.
C9_DeepIndependent ==
    /\ Deep(heap, RefV(doc)) = Deep(heap0, RefV(doc))
    /\ res.op = "to_name_dict_pair" /\ res.exc = "" => ~HasKey(heap[pair.ret].ents, "_name")

\* C9 amended: the returned mapping is a new top-level mapping without
\* '_name' that holds the non-reserved entries of d, and no insertion,
\* replacement or deletion of a top-level entry of the returned mapping or
\* of the initial mapping changes the entries of d (the nested mappings
\* and lists themselves are shared, not copied).
C9_TopLevelIndependent ==
    /\ heap[doc] = heap0[doc]
    /\ res.op = "to_name_dict_pair" /\ res.exc = "" =>
            /\ pair.ret \notin {doc, initial}
            /\ ~HasKey(heap[pair.ret].ents, "_name")
            /\ heap[pair.ret].ents = NonReserved(heap[doc].ents)

\* C9 witness: the caller has replaced, in the returned mapping, an entry
\* that d has too, and the two now differ.
C9_Witness ==
    /\ pair.ret # 0
    /\ res.op = "top_set"
    /\ res.val = RefV(pair.ret)
    /\ HasKey(heap[doc].ents, res.key)
    /\ Get(heap[pair.ret].ents, res.key) # Get(heap[doc].ents, res.key)

=============================================================================
